---- MODULE Spec2Model ----
(***************************************************************************)
(* packages/ui/verification.py: verify_language_setting, the end-to-end    *)
(* check of the language setting of the UI against a mocked backend.       *)
(*                                                                         *)
(* The script is one sequential flow.  Every call into the browser         *)
(* automation library either returns or raises; the page it drives runs    *)
(* in the browser beside the script and may send a request at any moment   *)
(* once it is loaded.  pc is the script's position, trace the calls it has *)
(* made with their outcome.                                                *)
(***************************************************************************)
EXTENDS Naturals, Sequences, FiniteSets

VARIABLES
    pc,          \* position of the script
    pending,     \* an exception is propagating out of the with body
    scope,       \* sync_playwright() scope: "none", "open", "exited"
    exitCount,   \* number of times the scope's __exit__ has run
    browser,     \* "none", "open", "closed"
    routes,      \* the page's route table, in registration order
    url,         \* what the page shows
    buttons,     \* local `buttons`: the enumerated button handles
    i,           \* local `i`: index of the button the loop is at (1-based)
    trace,       \* library calls made so far: [call, arg, ret]
    selected,    \* option selected in the language control by the script
    uiLocale,    \* locale chosen in the page; "" while none is set
    screenshots, \* files written by page.screenshot
    printed,     \* lines printed by the script's flow, in order
    lastReq,     \* the page's most recent request to a mocked pattern, as answered
    app          \* "any": an arbitrary page; "modelled": the target application

vars == <<pc, pending, scope, exitCount, browser, routes, url, buttons, i, trace,
          selected, uiLocale, screenshots, printed, lastReq, app>>

\* Largest number of buttons the page's enumeration returns.
MaxButtons == 2

----------------------------------------------------------------------------
(* Literals of the script. *)

Blank == "about:blank"
AppUrl == "http://localhost:5173/"

FrontendSettings == "**/api/frontend-settings"
BridgeInfo == "**/api/bridge/info"
ActivityRecent == "**/api/activity/recent"
LogSharingStatus == "**/api/log-sharing/status"
Commands == "**/api/commands"

\* The five patterns, in the order the script registers them.
Patterns == <<FrontendSettings, BridgeInfo, ActivityRecent, LogSharingStatus, Commands>>

Toast == [stateChange |-> FALSE, command |-> TRUE]

\* body= of the lambda registered for pattern p (a JSON text, as its value).
StaticBody(p) ==
    CASE p = FrontendSettings -> [settings |-> [toast |-> Toast]]
      [] p = BridgeInfo -> [bridges |-> <<>>, mqttUrl |-> "ws://localhost:1883",
                            status |-> "started", topic |-> "test"]
      [] p = ActivityRecent -> <<>>
      [] p = LogSharingStatus -> [asked |-> TRUE, consented |-> FALSE]
      [] p = Commands -> [commands |-> <<>>]

\* Fault variant of PutBody: handle_put answers with the body of the first mock.
PutBodyNoLocale == [settings |-> [toast |-> Toast]]

\* body= of handle_put.
PutBody == [settings |-> [toast |-> Toast, locale |-> "en"]]

\* route.fulfill(status=200, content_type="application/json", body=b)
Fulfill(b) == [status |-> 200, content_type |-> "application/json", body |-> b]

\* The two labels of the settings button; the first stands for the Korean
\* label (U+C124 U+C815), which a TLA+ string cannot hold.
KoSettings == "seoljeong"
EnSettings == "Settings"

ScreenshotPath == "verification/final_english_settings.png"
\* Fault variant of LanguageOption: the other option of the control.
LanguageOptionKo == "ko"

\* Line 83: the option the script selects.
LanguageOption == "en"

MsgNavApp == "Navigating to app..."
MsgNavSettings == "Navigating to Settings..."
MsgFound == "Found language switcher!"
MsgChanging == "Changing language to English..."
MsgSuccess == "Verification SUCCESS: 'Settings' heading found."
MsgFailed == "Verification FAILED: 'Settings' heading not found."
MsgNotFound == "Language switcher not found."

----------------------------------------------------------------------------
(* What the page can hold. *)

Locales == {"ko", "en"}

\* A button handle: its text_content() raises (the element is gone), returns
\* None, or returns a text, held as its sequence of words.
ButtonHandles ==
    { [kind |-> "gone", text |-> <<>>],
      [kind |-> "none", text |-> <<>>],
      [kind |-> "text", text |-> <<KoSettings>>],
      [kind |-> "text", text |-> <<"Open", EnSettings>>],
      [kind |-> "text", text |-> <<"Dashboard">>] }

ButtonLists == UNION { [1..n -> ButtonHandles] : n \in 0..MaxButtons }

\* Python's `sub in txt` on a text.
Contains(sub, txt) == \E k \in DOMAIN txt : txt[k] = sub

\* Fault variant of IsSettingsLabel: the English label is not tested.
IsSettingsLabelKoOnly(txt) == Contains(KoSettings, txt)

\* Line 55: "<ko>" in txt or "Settings" in txt
IsSettingsLabel(txt) == Contains(KoSettings, txt) \/ Contains(EnSettings, txt)

\* The methods the page uses on pattern p: it reads and writes its settings and
\* only reads the other four endpoints.
Methods(p) == IF p = FrontendSettings THEN {"GET", "PUT"} ELSE {"GET"}

\* A request that no handler of the script answers goes on to the network; what
\* comes back is not the script's doing and is held as status 0.
NetworkResponse == [status |-> 0, content_type |-> "", body |-> <<>>]

NoReq == [url |-> "", method |-> "", handler |-> "", phase |-> "", echo |-> "",
          response |-> NetworkResponse]

----------------------------------------------------------------------------
(* The route table. *)

HandlersFor(table, p) == SelectSeq(table, LAMBDA e : e.url = p)

\* The handler that answers a request to p: the one registered last; "network"
\* when none is registered and the request goes on to the real backend.
Resolve(table, p) ==
    LET hs == HandlersFor(table, p)
    IN IF hs = <<>> THEN "network" ELSE hs[Len(hs)].handler

\* Fault variant of Unrouted: the unroute is lost and the table stays as it is.
UnroutedNothing(table, p) == table

\* page.unroute(p): every handler of p is removed.
Unrouted(table, p) == SelectSeq(table, LAMBDA e : e.url # p)

\* What a handler answers with.
Response(h, p) ==
    CASE h = "static" -> Fulfill(StaticBody(p))
      [] h = "handle_put" -> Fulfill(PutBody)

----------------------------------------------------------------------------
(* The trace of calls. *)

Called(c, a, r) == trace' = Append(trace, [call |-> c, arg |-> a, ret |-> r])

Calls(c) == SelectSeq(trace, LAMBDA e : e.call = c)
Returned(c) == \E k \in DOMAIN trace : trace[k].call = c /\ trace[k].ret # "raise"
RaisedCalls == { trace[k].call : k \in { n \in DOMAIN trace : trace[n].ret = "raise" } }

print(out, msg) == Append(out, msg)

\* Fault variant of Raise: the exception leaves the function past the scope's
\* exit, as it would without the with statement.
RaiseSkipsExit == pc' = "raised" /\ pending' = TRUE

\* An exception raised in the with body leaves it through the scope's exit.
Raise == pc' = "exit" /\ pending' = TRUE

\* Where the script stands with respect to the replacement of the
\* frontend-settings mock (lines 78-79).
Phase ==
    IF Returned("route_handle_put") THEN "after"
    ELSE IF Returned("unroute") THEN "between" ELSE "before"

----------------------------------------------------------------------------
(* The target application, as far as the script observes it. *)

\* The page renders in the locale chosen in its language control.
AppRender(loc) == loc

\* The heading named 'Settings' is shown when the page renders in English.
HeadingVisible(loc) == loc = "en"

\* What heading.is_visible() can return on the page.
IsVisibleResults ==
    IF app = "modelled"
    THEN { IF HeadingVisible(uiLocale) THEN "true" ELSE "false" }
    ELSE {"true", "false"}

----------------------------------------------------------------------------
(* Initial state: verify_language_setting() has just been called. *)

Start(a) ==
    /\ pc = "enter"
    /\ pending = FALSE
    /\ scope = "none"
    /\ exitCount = 0
    /\ browser = "none"
    /\ routes = <<>>
    /\ url = Blank
    /\ buttons = <<>>
    /\ i = 0
    /\ trace = <<>>
    /\ selected = ""
    /\ uiLocale = ""
    /\ screenshots = {}
    /\ printed = <<>>
    /\ lastReq = NoReq
    /\ app = a

Init == Start("any")

AppInit == Start("modelled")

----------------------------------------------------------------------------
(* The steps of verify_language_setting. *)

\* Line 5: with sync_playwright() as p
Enter ==
    /\ pc = "enter"
    /\ \E ok \in BOOLEAN :
         IF ok
         THEN /\ scope' = "open"
              /\ pc' = "launch"
              /\ Called("sync_playwright", 0, "ok")
              /\ UNCHANGED pending
         ELSE /\ pc' = "raised"
              /\ pending' = TRUE
              /\ Called("sync_playwright", 0, "raise")
              /\ UNCHANGED scope
    /\ UNCHANGED <<exitCount, browser, routes, url, buttons, i, selected, uiLocale,
                   screenshots, printed, lastReq, app>>

\* Line 6: browser = p.chromium.launch(headless=True)
Launch ==
    /\ pc = "launch"
    /\ \E ok \in BOOLEAN :
         IF ok
         THEN /\ browser' = "open"
              /\ pc' = "new_context"
              /\ Called("launch", 0, "ok")
              /\ UNCHANGED pending
         ELSE /\ Raise
              /\ Called("launch", 0, "raise")
              /\ UNCHANGED browser
    /\ UNCHANGED <<scope, exitCount, routes, url, buttons, i, selected, uiLocale,
                   screenshots, printed, lastReq, app>>

\* Line 7: context = browser.new_context()
NewContext ==
    /\ pc = "new_context"
    /\ \E ok \in BOOLEAN :
         IF ok
         THEN /\ pc' = "new_page"
              /\ Called("new_context", 0, "ok")
              /\ UNCHANGED pending
         ELSE /\ Raise
              /\ Called("new_context", 0, "raise")
    /\ UNCHANGED <<scope, exitCount, browser, routes, url, buttons, i, selected,
                   uiLocale, screenshots, printed, lastReq, app>>

\* Line 8: page = context.new_page()
NewPage ==
    /\ pc = "new_page"
    /\ \E ok \in BOOLEAN :
         IF ok
         THEN /\ pc' = "route"
              /\ Called("new_page", 0, "ok")
              /\ UNCHANGED pending
         ELSE /\ Raise
              /\ Called("new_page", 0, "raise")
    /\ UNCHANGED <<scope, exitCount, browser, routes, url, buttons, i, selected,
                   uiLocale, screenshots, printed, lastReq, app>>

\* Lines 12-37: the five page.route(pattern, lambda route: route.fulfill(...))
\* calls, one per step, in the order of Patterns.
RouteStatic ==
    /\ pc = "route"
    /\ LET k == Len(routes) + 1
       IN \E ok \in BOOLEAN :
            IF ok
            THEN /\ routes' = Append(routes, [url |-> Patterns[k], handler |-> "static"])
                 /\ pc' = IF k = Len(Patterns) THEN "goto" ELSE "route"
                 /\ Called("route", k, "ok")
                 /\ UNCHANGED pending
            ELSE /\ Raise
                 /\ Called("route", k, "raise")
                 /\ UNCHANGED routes
    /\ UNCHANGED <<scope, exitCount, browser, url, buttons, i, selected, uiLocale,
                   screenshots, printed, lastReq, app>>

\* Lines 39-40: print, then page.goto("http://localhost:5173/").  A goto that
\* raises (a timeout) may have loaded the page or not.
Goto ==
    /\ pc = "goto"
    /\ printed' = print(printed, MsgNavApp)
    /\ \E ok \in BOOLEAN :
         IF ok
         THEN /\ url' = AppUrl
              /\ pc' = "wait"
              /\ Called("goto", 0, "ok")
              /\ UNCHANGED pending
         ELSE /\ \E loaded \in BOOLEAN : url' = IF loaded THEN AppUrl ELSE url
              /\ Raise
              /\ Called("goto", 0, "raise")
    /\ UNCHANGED <<scope, exitCount, browser, routes, buttons, i, selected, uiLocale,
                   screenshots, lastReq, app>>

\* Fault variant of WaitLoading: the wait stands outside any try.
WaitLoadingUnguarded ==
    /\ pc = "wait"
    /\ \E ok \in BOOLEAN :
         IF ok
         THEN /\ Called("expect", 0, "ok")
              /\ pc' = "buttons"
              /\ printed' = print(printed, MsgNavSettings)
              /\ UNCHANGED pending
         ELSE /\ Called("expect", 0, "raise")
              /\ Raise
              /\ UNCHANGED printed
    /\ UNCHANGED <<scope, exitCount, browser, routes, url, buttons, i, selected,
                   uiLocale, screenshots, lastReq, app>>

\* Lines 43-48: the loading wait in its try / bare except, then the print.
WaitLoading ==
    /\ pc = "wait"
    /\ \E ok \in BOOLEAN : Called("expect", 0, IF ok THEN "ok" ELSE "raise")
    /\ pc' = "buttons"
    /\ printed' = print(printed, MsgNavSettings)
    /\ UNCHANGED <<pending, scope, exitCount, browser, routes, url, buttons, i,
                   selected, uiLocale, screenshots, lastReq, app>>

\* Line 51: buttons = page.get_by_role("button").all()
AllButtons ==
    /\ pc = "buttons"
    /\ \E ok \in BOOLEAN :
         IF ok
         THEN /\ \E bs \in ButtonLists : buttons' = bs
              /\ i' = 1
              /\ pc' = "loop"
              /\ Called("all", 0, "ok")
              /\ UNCHANGED pending
         ELSE /\ Raise
              /\ Called("all", 0, "raise")
              /\ UNCHANGED <<buttons, i>>
    /\ UNCHANGED <<scope, exitCount, browser, routes, url, selected, uiLocale,
                   screenshots, printed, lastReq, app>>

\* Fault variant of TextContent: an unreadable text ends the loop (the try
\* around the loop instead of inside it).
TextContentStopsOnError ==
    /\ pc = "loop"
    /\ i <= Len(buttons)
    /\ LET btn == buttons[i]
       IN CASE btn.kind = "gone" ->
                 /\ Called("text_content", i, "raise")
                 /\ pc' = "sleep1"
                 /\ UNCHANGED i
            [] btn.kind = "none" ->
                 /\ trace' = trace \o <<[call |-> "text_content", arg |-> i, ret |-> "ok"],
                                        [call |-> "in", arg |-> i, ret |-> "raise"]>>
                 /\ pc' = "sleep1"
                 /\ UNCHANGED i
            [] btn.kind = "text" ->
                 /\ Called("text_content", i, "ok")
                 /\ IF IsSettingsLabel(btn.text)
                    THEN pc' = "click" /\ UNCHANGED i
                    ELSE i' = i + 1 /\ UNCHANGED pc
    /\ UNCHANGED <<pending, scope, exitCount, browser, routes, url, buttons, selected,
                   uiLocale, screenshots, printed, lastReq, app>>

\* Lines 52-55 and 58-59: one turn of the loop up to the test of the text.
\* text_content() raising, and the TypeError of `in` on None, are swallowed by
\* the bare except and the loop goes on with the next button.
TextContent ==
    /\ pc = "loop"
    /\ i <= Len(buttons)
    /\ LET btn == buttons[i]
       IN CASE btn.kind = "gone" ->
                 /\ Called("text_content", i, "raise")
                 /\ i' = i + 1
                 /\ UNCHANGED pc
            [] btn.kind = "none" ->
                 /\ trace' = trace \o <<[call |-> "text_content", arg |-> i, ret |-> "ok"],
                                        [call |-> "in", arg |-> i, ret |-> "raise"]>>
                 /\ i' = i + 1
                 /\ UNCHANGED pc
            [] btn.kind = "text" ->
                 /\ Called("text_content", i, "ok")
                 /\ IF IsSettingsLabel(btn.text)
                    THEN pc' = "click" /\ UNCHANGED i
                    ELSE i' = i + 1 /\ UNCHANGED pc
    /\ UNCHANGED <<pending, scope, exitCount, browser, routes, url, buttons, selected,
                   uiLocale, screenshots, printed, lastReq, app>>

\* Fault variant of Click: the break after the click is missing.
ClickNoBreak ==
    /\ pc = "click"
    /\ \E ok \in BOOLEAN :
         /\ Called("click", i, IF ok THEN "ok" ELSE "raise")
         /\ i' = i + 1
         /\ pc' = "loop"
    /\ UNCHANGED <<pending, scope, exitCount, browser, routes, url, buttons, selected,
                   uiLocale, screenshots, printed, lastReq, app>>

\* Lines 56-59: btn.click(), then break; a click that raises is swallowed by
\* the bare except, the break is not reached and the loop goes on.
Click ==
    /\ pc = "click"
    /\ \E ok \in BOOLEAN :
         IF ok
         THEN /\ Called("click", i, "ok")
              /\ pc' = "sleep1"
              /\ UNCHANGED i
         ELSE /\ Called("click", i, "raise")
              /\ i' = i + 1
              /\ pc' = "loop"
    /\ UNCHANGED <<pending, scope, exitCount, browser, routes, url, buttons, selected,
                   uiLocale, screenshots, printed, lastReq, app>>

\* Line 52: the list is exhausted.
LoopDone ==
    /\ pc = "loop"
    /\ i > Len(buttons)
    /\ pc' = "sleep1"
    /\ UNCHANGED <<pending, scope, exitCount, browser, routes, url, buttons, i, trace,
                   selected, uiLocale, screenshots, printed, lastReq, app>>

\* Line 62: time.sleep(1)
Sleep1 ==
    /\ pc = "sleep1"
    /\ Called("sleep", 1, "ok")
    /\ pc' = "count"
    /\ UNCHANGED <<pending, scope, exitCount, browser, routes, url, buttons, i,
                   selected, uiLocale, screenshots, printed, lastReq, app>>

\* Fault variant of Count: the test is count() >= 0.
CountNoCheck ==
    /\ pc = "count"
    /\ \E ok \in BOOLEAN, n \in 0..2 :
         IF ok
         THEN /\ Called("count", n, "ok")
              /\ printed' = print(printed, MsgFound)
              /\ pc' = "unroute"
              /\ UNCHANGED pending
         ELSE /\ n = 0
              /\ Raise
              /\ Called("count", 0, "raise")
              /\ UNCHANGED printed
    /\ UNCHANGED <<scope, exitCount, browser, routes, url, buttons, i, selected,
                   uiLocale, screenshots, lastReq, app>>

\* Lines 65-67 and 97-98: select = page.locator(".lang-switcher select");
\* if select.count() > 0: print ... else: print ...
Count ==
    /\ pc = "count"
    /\ \E ok \in BOOLEAN, n \in 0..2 :
         IF ok
         THEN /\ Called("count", n, "ok")
              /\ IF n > 0
                 THEN /\ printed' = print(printed, MsgFound)
                      /\ pc' = "unroute"
                 ELSE /\ printed' = print(printed, MsgNotFound)
                      /\ pc' = "exit"
              /\ UNCHANGED pending
         ELSE /\ n = 0
              /\ Raise
              /\ Called("count", 0, "raise")
              /\ UNCHANGED printed
    /\ UNCHANGED <<scope, exitCount, browser, routes, url, buttons, i, selected,
                   uiLocale, screenshots, lastReq, app>>

\* Line 78: page.unroute("**/api/frontend-settings")
Unroute ==
    /\ pc = "unroute"
    /\ \E ok \in BOOLEAN :
         IF ok
         THEN /\ routes' = Unrouted(routes, FrontendSettings)
              /\ pc' = "route_handle_put"
              /\ Called("unroute", 0, "ok")
              /\ UNCHANGED pending
         ELSE /\ Raise
              /\ Called("unroute", 0, "raise")
              /\ UNCHANGED routes
    /\ UNCHANGED <<scope, exitCount, browser, url, buttons, i, selected, uiLocale,
                   screenshots, printed, lastReq, app>>

\* Lines 79-82: page.route("**/api/frontend-settings", handle_put), then print.
RoutePut ==
    /\ pc = "route_handle_put"
    /\ \E ok \in BOOLEAN :
         IF ok
         THEN /\ routes' = Append(routes, [url |-> FrontendSettings,
                                            handler |-> "handle_put"])
              /\ printed' = print(printed, MsgChanging)
              /\ pc' = "select_option"
              /\ Called("route_handle_put", 0, "ok")
              /\ UNCHANGED pending
         ELSE /\ Raise
              /\ Called("route_handle_put", 0, "raise")
              /\ UNCHANGED <<routes, printed>>
    /\ UNCHANGED <<scope, exitCount, browser, url, buttons, i, selected, uiLocale,
                   screenshots, lastReq, app>>

\* Line 83: select.select_option("en")
SelectOption ==
    /\ pc = "select_option"
    /\ \E ok \in BOOLEAN :
         IF ok
         THEN /\ selected' = LanguageOption
              /\ uiLocale' = AppRender(LanguageOption)
              /\ pc' = "sleep2"
              /\ Called("select_option", 0, "ok")
              /\ UNCHANGED pending
         ELSE /\ Raise
              /\ Called("select_option", 0, "raise")
              /\ UNCHANGED <<selected, uiLocale>>
    /\ UNCHANGED <<scope, exitCount, browser, routes, url, buttons, i, screenshots,
                   printed, lastReq, app>>

\* Line 86: time.sleep(2)
Sleep2 ==
    /\ pc = "sleep2"
    /\ Called("sleep", 2, "ok")
    /\ pc' = "screenshot"
    /\ UNCHANGED <<pending, scope, exitCount, browser, routes, url, buttons, i,
                   selected, uiLocale, screenshots, printed, lastReq, app>>

\* Line 87: page.screenshot(path="verification/final_english_settings.png")
Screenshot ==
    /\ pc = "screenshot"
    /\ \E ok \in BOOLEAN :
         IF ok
         THEN /\ screenshots' = screenshots \cup {ScreenshotPath}
              /\ pc' = "is_visible"
              /\ Called("screenshot", 0, "ok")
              /\ UNCHANGED pending
         ELSE /\ Raise
              /\ Called("screenshot", 0, "raise")
              /\ UNCHANGED screenshots
    /\ UNCHANGED <<scope, exitCount, browser, routes, url, buttons, i, selected,
                   uiLocale, printed, lastReq, app>>

\* Fault variant of IsVisible: the two messages are swapped.
IsVisibleSwapped ==
    /\ pc = "is_visible"
    /\ \E r \in IsVisibleResults \cup {"raise"} :
         /\ Called("is_visible", 0, r)
         /\ IF r = "raise"
            THEN Raise /\ UNCHANGED printed
            ELSE /\ printed' = print(printed, IF r = "true" THEN MsgFailed ELSE MsgSuccess)
                 /\ pc' = "exit"
                 /\ UNCHANGED pending
    /\ UNCHANGED <<scope, exitCount, browser, routes, url, buttons, i, selected,
                   uiLocale, screenshots, lastReq, app>>

\* Lines 91-95: heading = page.get_by_role("heading", name="Settings");
\* if heading.is_visible(): print SUCCESS else: print FAILED
IsVisible ==
    /\ pc = "is_visible"
    /\ \E r \in IsVisibleResults \cup {"raise"} :
         /\ Called("is_visible", 0, r)
         /\ IF r = "raise"
            THEN Raise /\ UNCHANGED printed
            ELSE /\ printed' = print(printed, IF r = "true" THEN MsgSuccess ELSE MsgFailed)
                 /\ pc' = "exit"
                 /\ UNCHANGED pending
    /\ UNCHANGED <<scope, exitCount, browser, routes, url, buttons, i, selected,
                   uiLocale, screenshots, lastReq, app>>

\* Line 5: the with statement's exit, on the normal path and on an exception
\* alike; the library closes the browser there.
ScopeExit ==
    /\ pc = "exit"
    /\ scope' = "exited"
    /\ exitCount' = exitCount + 1
    /\ browser' = IF browser = "open" THEN "closed" ELSE browser
    /\ pc' = IF pending THEN "raised" ELSE "returned"
    /\ Called("__exit__", 0, "ok")
    /\ UNCHANGED <<pending, routes, url, buttons, i, selected, uiLocale, screenshots,
                   printed, lastReq, app>>

\* The script's flow.
Script ==
    \/ Enter
    \/ Launch
    \/ NewContext
    \/ NewPage
    \/ RouteStatic
    \/ Goto
    \/ WaitLoading
    \/ AllButtons
    \/ TextContent
    \/ Click
    \/ LoopDone
    \/ Sleep1
    \/ Count
    \/ Unroute
    \/ RoutePut
    \/ SelectOption
    \/ Sleep2
    \/ Screenshot
    \/ IsVisible
    \/ ScopeExit

----------------------------------------------------------------------------
(* The page. *)

\* request.post_data of a request of method m.
PostData(m) == IF m = "PUT" THEN "{\"locale\":\"en\"}" ELSE "None"

\* The loaded page sends a request matching one of the five patterns; the
\* route table of that moment decides who answers it.  handle_put echoes the
\* request's post_data (line 71).
PageRequest ==
    /\ url = AppUrl
    /\ browser = "open"
    /\ \E p \in {Patterns[k] : k \in DOMAIN Patterns} : \E m \in Methods(p) :
         LET h == Resolve(routes, p)
         IN lastReq' = [url |-> p, method |-> m, handler |-> h, phase |-> Phase,
                        echo |-> IF h = "handle_put" THEN PostData(m) ELSE "",
                        response |-> IF h = "network" THEN NetworkResponse
                                     ELSE Response(h, p)]
    /\ UNCHANGED <<pc, pending, scope, exitCount, browser, routes, url, buttons, i,
                   trace, selected, uiLocale, screenshots, printed, app>>

Next == Script \/ PageRequest

Spec == Init /\ [][Next]_vars

\* The script against the target application.
AppSpec == AppInit /\ [][Next]_vars

\* The script alone; each call returns or raises, so the flow keeps stepping.
LiveSpec == Init /\ [][Script]_vars /\ WF_vars(Script)

----------------------------------------------------------------------------
(* Vocabulary of the properties. *)

Range(f) == { f[k] : k \in DOMAIN f }

Terminal == pc \in {"returned", "raised"}

\* The loop over the buttons is behind the script.
AfterLoop == pc \notin {"enter", "launch", "new_context", "new_page", "route", "goto",
                        "wait", "buttons", "loop", "click"}

\* Whether call c was made at all, whatever its outcome.
Made(c) == Calls(c) # <<>>

Occurrences(out, msg) == Len(SelectSeq(out, LAMBDA m : m = msg))

\* select.count() returned n.
CountReturned(n) ==
    \E k \in DOMAIN trace : trace[k] = [call |-> "count", arg |-> n, ret |-> "ok"]

CountPositive == \E n \in 1..2 : CountReturned(n)

\* Indices of the buttons whose text was read, in the order of the reads.
Inspected ==
    LET ts == Calls("text_content") IN [k \in 1..Len(ts) |-> ts[k].arg]

\* Button j has a readable text that holds one of the two settings labels.
HasSettingsText(j) ==
    /\ buttons[j].kind = "text"
    /\ \E k \in DOMAIN buttons[j].text : buttons[j].text[k] \in {KoSettings, EnSettings}

\* Button j's text cannot be read.
Unreadable(j) == buttons[j].kind \in {"gone", "none"}

\* A click on a button of index below j returned normally.
ClickedBefore(j) ==
    \E k \in DOMAIN trace :
        trace[k].call = "click" /\ trace[k].ret = "ok" /\ trace[k].arg < j

\* The calls that sit in a try with a bare except.
Swallowed == {"expect", "text_content", "in", "click"}

----------------------------------------------------------------------------
(* C1 *)

----------------------------------------------------------------------------
(* C2 *)

\* The calls C2 names outside the loading wait and the loop body.
ListedUnguarded == {"launch", "route", "goto", "all", "count", "unroute",
                    "select_option", "screenshot", "is_visible"}

\* C2 as stated: whichever of the named library calls fails, no exception
\* escapes the function.
C2_NoExceptionEscapes ==
    (RaisedCalls \cap ListedUnguarded # {}) => (~pending /\ pc # "raised")

\* C2, amended: only a failure of the loading wait or inside the button loop
\* (text read, membership test, click) is suppressed.  A failure of any other
\* call escapes the function: it is the last call of the run before the scope's
\* exit, and neither the SUCCESS nor the FAILED message is printed.  The FAILED
\* message is printed only after is_visible returned false.
C2_OnlyWaitAndLoopSuppressed ==
    /\ pending <=> (RaisedCalls \ Swallowed # {})
    /\ (pc = "raised") => pending
    /\ (pc = "returned") => ~pending
    /\ \A k \in DOMAIN trace :
          (trace[k].ret = "raise" /\ trace[k].call \notin Swallowed) =>
              \/ k = Len(trace)
              \/ k = Len(trace) - 1 /\ trace[Len(trace)].call = "__exit__"
    /\ \A k \in DOMAIN trace :
          (trace[k].ret = "raise" /\ trace[k].call \in Swallowed /\ Terminal) =>
              k < Len(trace) - 1
    /\ pending => (MsgSuccess \notin Range(printed) /\ MsgFailed \notin Range(printed))
    /\ (MsgFailed \in Range(printed)) =>
          \E k \in DOMAIN trace : trace[k].call = "is_visible" /\ trace[k].ret = "false"

C2_Witness ==
    /\ pc = "raised"
    /\ "expect" \in RaisedCalls
    /\ "click" \in RaisedCalls
    /\ "screenshot" \in RaisedCalls

----------------------------------------------------------------------------
(* C3 *)

\* C3 as stated: at most one click is attempted per run, on the first button
\* whose readable text holds a settings label; with no such button, none.
C3_AtMostOneClickAttempt ==
    LET cs == Calls("click")
    IN /\ Len(cs) <= 1
       /\ \A k \in DOMAIN cs :
             /\ HasSettingsText(cs[k].arg)
             /\ \A j \in 1..(cs[k].arg - 1) : ~HasSettingsText(j)

\* C3, amended: clicks are attempted on buttons with a settings label only, in
\* enumeration order, starting with the first such button, and a further one
\* is attempted only after every earlier attempt raised; so at most one click
\* returns normally and no button after it is clicked.  When the loop is over,
\* a click has been attempted if and only if some button has a settings label.
C3_ClicksSettingsButtonsInOrder ==
    LET cs == Calls("click")
    IN /\ \A k \in DOMAIN cs : HasSettingsText(cs[k].arg)
       /\ \A k \in DOMAIN cs :
             \A j \in 1..(cs[k].arg - 1) :
                 HasSettingsText(j) => \E m \in 1..(k - 1) : cs[m].arg = j
       /\ \A k \in 1..(Len(cs) - 1) : cs[k].ret = "raise" /\ cs[k].arg < cs[k + 1].arg
       /\ AfterLoop => (cs # <<>> <=> \E j \in DOMAIN buttons : HasSettingsText(j))

C3_Witness ==
    LET cs == Calls("click")
    IN /\ AfterLoop
       /\ Len(cs) = 2
       /\ cs[1].ret = "raise"
       /\ cs[2].ret = "ok"

----------------------------------------------------------------------------
(* C4 *)

\* C4: a button whose text cannot be read does not end the loop: once the loop
\* is over, every button not preceded by a click that returned has been
\* inspected, and every such button with a settings label has had its click
\* attempted, also right after an unreadable one.  A loading wait that raises
\* is ignored: the button enumeration is the next call.
C4_UnreadableSkippedWaitIgnored ==
    /\ AfterLoop =>
          \A j \in DOMAIN buttons :
              ~ClickedBefore(j) =>
                  /\ j \in Range(Inspected)
                  /\ HasSettingsText(j) =>
                        \E k \in DOMAIN trace : trace[k].call = "click" /\ trace[k].arg = j
    /\ \A k \in DOMAIN trace :
          (trace[k].call = "expect") =>
              IF k = Len(trace) THEN pc = "buttons" /\ ~pending
              ELSE trace[k + 1].call = "all"

C4_Witness ==
    /\ AfterLoop
    /\ "expect" \in RaisedCalls
    /\ Len(buttons) = 2
    /\ Unreadable(1)
    /\ HasSettingsText(2)
    /\ \E k \in DOMAIN trace : trace[k] = [call |-> "click", arg |-> 2, ret |-> "ok"]

----------------------------------------------------------------------------
(* C5 *)

\* The table after the five registrations of lines 12-37.
StaticTable == [k \in 1..Len(Patterns) |-> [url |-> Patterns[k], handler |-> "static"]]

\* C5: when select.count() returns 0 the run reports 'Language switcher not
\* found.' and leaves: the route table still holds the five static mocks,
\* unroute, route(handle_put), select_option, screenshot and is_visible are not
\* called, nothing is selected, no screenshot is written, and neither the SUCCESS
\* nor the FAILED message is printed.
C5_AbsentSelectorOnlyReports ==
    CountReturned(0) =>
        /\ pc \in {"exit", "returned"}
        /\ ~pending
        /\ routes = StaticTable
        /\ \A c \in {"unroute", "route_handle_put", "select_option", "screenshot",
                     "is_visible"} : ~Made(c)
        /\ selected = ""
        /\ screenshots = {}
        /\ printed[Len(printed)] = MsgNotFound
        /\ Occurrences(printed, MsgNotFound) = 1
        /\ \A m \in {MsgFound, MsgChanging, MsgSuccess, MsgFailed} : m \notin Range(printed)

C5_Witness ==
    /\ CountReturned(0)
    /\ pc = "returned"
    /\ lastReq.url = FrontendSettings

----------------------------------------------------------------------------
(* C6 *)

\* The calls of the branch taken when the selector is present, in trace order.
BranchCalls ==
    SelectSeq(trace, LAMBDA e :
        \/ e.call \in {"unroute", "route_handle_put", "select_option", "screenshot",
                       "is_visible"}
        \/ e.call = "sleep" /\ e.arg = 2)

BranchOrder == <<"unroute", "route_handle_put", "select_option", "sleep", "screenshot",
                 "is_visible">>

\* C6: with the selector present the calls of the branch are made in the order
\* unroute, route(handle_put), select_option('en'), sleep(2), screenshot,
\* is_visible, each at most once and each only after the one before it returned;
\* a run that returns has made all six.  Once is_visible has returned, exactly
\* one of the SUCCESS and FAILED messages has been printed, once, SUCCESS exactly
\* when it returned true; 'Language switcher not found.' is never printed in
\* such a run.
C6_BranchInOrderOneVerdict ==
    LET bc == BranchCalls
        vs == SelectSeq(trace, LAMBDA e : e.call = "is_visible" /\ e.ret # "raise")
    IN /\ Len(bc) <= Len(BranchOrder)
       /\ \A k \in DOMAIN bc : bc[k].call = BranchOrder[k]
       /\ \A k \in 1..(Len(bc) - 1) : bc[k].ret # "raise"
       /\ bc # <<>> => CountPositive
       /\ (pc = "returned" /\ CountPositive) =>
             (Len(bc) = Len(BranchOrder) /\ selected = "en")
       /\ CountPositive => MsgNotFound \notin Range(printed)
       /\ IF vs = <<>>
          THEN MsgSuccess \notin Range(printed) /\ MsgFailed \notin Range(printed)
          ELSE /\ Occurrences(printed, MsgSuccess) + Occurrences(printed, MsgFailed) = 1
               /\ MsgSuccess \in Range(printed) <=> vs[1].ret = "true"
               /\ printed[Len(printed)] \in {MsgSuccess, MsgFailed}

C6_Witness ==
    /\ pc = "returned"
    /\ CountPositive
    /\ MsgFailed \in Range(printed)
    /\ ScreenshotPath \in screenshots

----------------------------------------------------------------------------
(* C7 *)

\* The five registrations had returned before page.goto was called.
RoutesBeforeGoto ==
    \A k \in DOMAIN trace :
        trace[k].call = "goto" =>
            \A n \in DOMAIN Patterns :
                \E m \in 1..(k - 1) : trace[m] = [call |-> "route", arg |-> n, ret |-> "ok"]

\* The body a mock of the script answers a request with, by its pattern and, for
\* frontend-settings, by whether handle_put has replaced the first mock.
ExpectedBody(r) ==
    IF r.url = FrontendSettings /\ r.phase = "after" THEN PutBody ELSE StaticBody(r.url)

AnsweredByMock(r) ==
    /\ r.handler # "network"
    /\ r.response.status = 200
    /\ r.response.content_type = "application/json"
    /\ r.response.body = ExpectedBody(r)
    /\ r.url = FrontendSettings =>
          IF r.phase = "after"
          THEN /\ "locale" \in DOMAIN r.response.body.settings
               /\ r.response.body.settings.locale = "en"
          ELSE "locale" \notin DOMAIN r.response.body.settings

\* C7 as stated: the five mocks are registered before page.goto, so every
\* request of the page to one of the five patterns is answered with status 200
\* and the pattern's fixed body.
C7_EveryRequestMocked ==
    /\ RoutesBeforeGoto
    /\ lastReq # NoReq => AnsweredByMock(lastReq)

\* C7, amended: the five mocks are registered before page.goto, and every
\* request of the page to one of the five patterns is answered with status 200
\* and the pattern's fixed body (for frontend-settings: without locale before
\* the replacement, with "locale": "en" after it, whatever the method), except a
\* request to frontend-settings sent after page.unroute returned and before
\* page.route(handle_put) has returned, which no mock answers.
C7_RequestsMockedOutsideGap ==
    /\ RoutesBeforeGoto
    /\ lastReq # NoReq =>
          IF lastReq.url = FrontendSettings /\ lastReq.phase = "between"
          THEN lastReq.handler = "network"
          ELSE AnsweredByMock(lastReq)

C7_Witness ==
    /\ lastReq.url = FrontendSettings
    /\ lastReq.phase = "after"
    /\ lastReq.method = "GET"
    /\ lastReq.response.body.settings.locale = "en"

----------------------------------------------------------------------------
(* C8 *)

\* C8: the browser is closed by the scope's exit and by nothing else; the scope
\* is never exited twice; a run that has entered the scope ends, on the normal
\* paths and when an exception escapes alike, with the scope exited exactly
\* once, and the exit is the last call of the run.
C8_ScopeExitedExactlyOnce ==
    /\ exitCount <= 1
    /\ browser = "closed" => scope = "exited"
    /\ scope = "exited" =>
          (Terminal /\ exitCount = 1 /\ trace[Len(trace)].call = "__exit__")
    /\ Terminal => (scope # "open" /\ browser # "open")
    /\ (Terminal /\ Returned("sync_playwright")) => (scope = "exited" /\ exitCount = 1)

C8_Witness ==
    /\ pc = "raised"
    /\ "select_option" \in RaisedCalls
    /\ exitCount = 1
    /\ browser = "closed"

----------------------------------------------------------------------------
(* C9 *)

\* C9: no pattern ever has two handlers; the static handler of each of the four
\* other patterns stays in the table from its registration on; that of
\* frontend-settings stays until page.unroute returns, the pattern has no
\* handler from then until page.route(handle_put) returns, and exactly
\* handle_put afterwards.
C9_RouteTable ==
    /\ \A n \in DOMAIN Patterns : Len(HandlersFor(routes, Patterns[n])) <= 1
    /\ \A n \in 2..Len(Patterns) :
          (\E k \in DOMAIN trace : trace[k] = [call |-> "route", arg |-> n, ret |-> "ok"])
             => HandlersFor(routes, Patterns[n]) = <<[url |-> Patterns[n], handler |-> "static"]>>
    /\ (\E k \in DOMAIN trace : trace[k] = [call |-> "route", arg |-> 1, ret |-> "ok"]) =>
          HandlersFor(routes, FrontendSettings) =
             CASE Phase = "before" -> <<[url |-> FrontendSettings, handler |-> "static"]>>
               [] Phase = "between" -> <<>>
               [] Phase = "after" -> <<[url |-> FrontendSettings, handler |-> "handle_put"]>>
    /\ Len(routes) <= Len(Patterns)

C9_Witness ==
    /\ Phase = "after"
    /\ pc = "returned"
    /\ Len(routes) = 5
    /\ Resolve(routes, FrontendSettings) = "handle_put"

----------------------------------------------------------------------------
(* C10 *)

\* C10 as stated: every run in which page.goto returns reaches the
\* language-selector lookup exactly once.
C10_GotoReachesLookup ==
    (Terminal /\ Returned("goto")) => Len(Calls("count")) = 1

C10_Steps ==
    /\ Len(Calls("count")) <= 1
    /\ (Terminal /\ Returned("goto") /\ Returned("all")) => Len(Calls("count")) = 1
    /\ Len(Inspected) <= Len(buttons)
    /\ \A k \in DOMAIN Inspected : Inspected[k] = k
    /\ \A k \in DOMAIN trace :
          (trace[k].call = "click" /\ trace[k].ret = "ok") =>
              \A m \in DOMAIN Inspected : Inspected[m] <= trace[k].arg

\* C10, amended: every run terminates; every run in which page.goto and the
\* button enumeration both return reaches the language-selector lookup exactly
\* once, whatever the loading wait and the buttons did; the loop inspects the
\* buttons one by one in list order, each at most once, and none after a click
\* that returned normally.
C10_Progress == <>Terminal /\ []C10_Steps

C10_Witness ==
    /\ pc = "returned"
    /\ Len(buttons) = 2
    /\ "expect" \in RaisedCalls
    /\ \E k \in DOMAIN trace : trace[k] = [call |-> "click", arg |-> 1, ret |-> "ok"]
    /\ Len(Calls("count")) = 1

====
